---- MODULE Spec2Model ----
(***************************************************************************)
(* Model of the telemetry receiver in src/main.rs: the accept loop of      *)
(* main, the ctrl-c handler that clears the shared running flag, and one   *)
(* handle_client thread per accepted connection, which reads lines,        *)
(* decodes each one with serde_json into a SensorData and inserts it into  *)
(* the sensor_data table.                                                  *)
(*                                                                         *)
(* A line of input is a sequence of lexical tokens (the text of the line   *)
(* is the concatenation of the tokens' texts).  The decoder works on the   *)
(* tokens the way serde_json works on the characters: whitespace is        *)
(* skipped between tokens, an object or an array is parsed member by       *)
(* member, and every member is type-checked against the SensorData field   *)
(* it names.  An object or an array may stand as a value inside the line:  *)
(* serde_json reads it to its closing brace or bracket, skips it under a   *)
(* key SensorData does not have, and rejects it where a field is due.      *)
(***************************************************************************)
EXTENDS Integers, Sequences, FiniteSets, TLC

(***************************************************************************)
(* Tokens.  k is the lexical class, s the text in chunks (for a string:    *)
(* the text between the quotes), n the numeric value (an integer for class *)
(* "int", tenths for class "float", 0 otherwise).                          *)
(***************************************************************************)
Tok(k, s, n) == [k |-> k, s |-> s, n |-> n]
Str(chunks) == Tok("str", chunks, 0)
Key(name) == Str(<<name>>)
Num(n) == Tok("int", <<>>, n)
Flt(tenths) == Tok("float", <<>>, tenths)
Lit(w) == Tok("lit", <<w>>, 0)
Bare(w) == Tok("bare", <<w>>, 0)
Ws == Tok("ws", <<" ">>, 0)
LBrace == Tok("p", <<"{">>, 0)
RBrace == Tok("p", <<"}">>, 0)
LBrack == Tok("p", <<"[">>, 0)
RBrack == Tok("p", <<"]">>, 0)
Colon == Tok("p", <<":">>, 0)
Comma == Tok("p", <<",">>, 0)

(***************************************************************************)
(* struct SensorData: the field names in declaration order.                *)
(***************************************************************************)
FieldNames ==
    << "sessionID", "timestamp", "latitude", "longitude", "altitude",
       "accel_x", "accel_y", "accel_z", "gyro_x", "gyro_y", "gyro_z",
       "dac_1", "dac_2", "dac_3", "dac_4" >>

FieldSet == { FieldNames[i] : i \in 1..Len(FieldNames) }

\* sessionID is Option<i32>: serde lets it be absent.
RequiredFields == FieldSet \ {"sessionID"}

(***************************************************************************)
(* str::trim: leading and trailing whitespace is removed.                  *)
(***************************************************************************)
RECURSIVE TrimStart(_)
TrimStart(line) ==
    IF line # <<>> /\ Head(line).k = "ws" THEN TrimStart(Tail(line)) ELSE line

RECURSIVE TrimEnd(_)
TrimEnd(line) ==
    IF line # <<>> /\ line[Len(line)].k = "ws"
    THEN TrimEnd(SubSeq(line, 1, Len(line) - 1))
    ELSE line

Trim(line) == TrimEnd(TrimStart(line))

(***************************************************************************)
(* str::contains on the text of a sequence of chunks or of a line.         *)
(***************************************************************************)
ContainsKeepalive(chunks) == \E i \in 1..Len(chunks) : chunks[i] = "keepalive"

\* The text of a token, in pieces: a string is its chunks between two quote
\* characters, a number its digits, any other token its own text.
Quote == "\""
Piece(t) ==
    IF t.k = "str" THEN <<Quote>> \o t.s \o <<Quote>>
    ELSE IF t.k \in {"int", "float"} THEN <<"0">>
    ELSE t.s

\* The text of a line: the texts of its tokens one after the other.
RECURSIVE Text(_)
Text(line) == IF line = <<>> THEN <<>> ELSE Piece(Head(line)) \o Text(Tail(line))

\* str::contains: pat occurs somewhere in text.
Contains(text, pat) ==
    \E i \in 0..(Len(text) - Len(pat)) : SubSeq(text, i + 1, i + Len(pat)) = pat

\* The text "type":"keepalive", quotes included.
Marker == <<Quote, "type", Quote, ":", Quote, "keepalive", Quote>>

\* line.contains("\"type\":\"keepalive\""): a test on the text of the line,
\* whatever tokens the quotes of the marker belong to.
HasKeepaliveMarker(line) == Contains(Text(line), Marker)

(***************************************************************************)
(* serde_json::from_str::<SensorData>.                                     *)
(***************************************************************************)
SkipWs(line) == SelectSeq(line, LAMBDA t : t.k # "ws")

\* A value that is one token.
IsScalar(t) == t.k \in {"str", "int", "float", "lit"}

\* Where the JSON value that begins at ts[i] ends, 0 when no well-formed
\* value begins there.  MembersEnd and ElementsEnd do the same for the rest
\* of an object from a key on and the rest of an array from an element on.
RECURSIVE ValueEnd(_, _), MembersEnd(_, _), ElementsEnd(_, _)
ValueEnd(ts, i) ==
    IF i > Len(ts) THEN 0
    ELSE IF IsScalar(ts[i]) THEN i
    ELSE IF i + 1 > Len(ts) THEN 0
    ELSE IF ts[i] = LBrace
         THEN (IF ts[i + 1] = RBrace THEN i + 1 ELSE MembersEnd(ts, i + 1))
    ELSE IF ts[i] = LBrack
         THEN (IF ts[i + 1] = RBrack THEN i + 1 ELSE ElementsEnd(ts, i + 1))
    ELSE 0

MembersEnd(ts, i) ==
    IF i + 1 > Len(ts) \/ ts[i].k # "str" \/ ts[i + 1] # Colon THEN 0
    ELSE LET e == ValueEnd(ts, i + 2)
         IN  IF e = 0 \/ e + 1 > Len(ts) THEN 0
             ELSE IF ts[e + 1] = RBrace THEN e + 1
             ELSE IF ts[e + 1] = Comma THEN MembersEnd(ts, e + 2)
             ELSE 0

ElementsEnd(ts, i) ==
    LET e == ValueEnd(ts, i)
    IN  IF e = 0 \/ e + 1 > Len(ts) THEN 0
        ELSE IF ts[e + 1] = RBrack THEN e + 1
        ELSE IF ts[e + 1] = Comma THEN ElementsEnd(ts, e + 2)
        ELSE 0

\* A well-formed object or array that stands as a value, read as a whole.
Nested == Tok("nested", <<>>, 0)

\* The tokens between the outer braces or brackets with every well-formed
\* object or array among them read as one value.  A brace or bracket that
\* begins no well-formed value is left where it is.
RECURSIVE Collapse(_)
Collapse(ts) ==
    IF ts = <<>> THEN <<>>
    ELSE IF Head(ts) \in {LBrace, LBrack} /\ ValueEnd(ts, 1) # 0
         THEN <<Nested>> \o Collapse(SubSeq(ts, ValueEnd(ts, 1) + 1, Len(ts)))
    ELSE <<Head(ts)>> \o Collapse(Tail(ts))

IsValue(t) == IsScalar(t) \/ t = Nested

\* Whether token t deserializes into field f.
TypeOk(f, t) ==
    CASE f = "sessionID" -> t.k = "int" \/ t = Lit("null")
      [] f = "timestamp" -> t.k = "str"
      [] OTHER -> t.k \in {"int", "float"}

\* The value field f takes from token t (f64 values are kept in tenths).
FieldValue(f, t) ==
    CASE f = "sessionID" ->
            IF t.k = "int" THEN [some |-> TRUE, v |-> t.n]
            ELSE [some |-> FALSE, v |-> 0]
      [] f = "timestamp" -> t.s
      [] OTHER -> IF t.k = "int" THEN 10 * t.n ELSE t.n

NoSession == [some |-> FALSE, v |-> 0]

ParseErr == [ok |-> FALSE, data |-> <<>>]

\* The members of an object: inner is the token sequence between the braces.
MembersWellFormed(inner) ==
    \/ inner = <<>>
    \/ /\ Len(inner) % 4 = 3
       /\ \A j \in 0..(Len(inner) \div 4) :
            /\ inner[4 * j + 1].k = "str"
            /\ inner[4 * j + 2] = Colon
            /\ IsValue(inner[4 * j + 3])
            /\ (4 * j + 4 <= Len(inner) => inner[4 * j + 4] = Comma)

MemberCount(inner) == IF inner = <<>> THEN 0 ELSE (Len(inner) \div 4) + 1
MemberKey(inner, j) == inner[4 * (j - 1) + 1].s
MemberVal(inner, j) == inner[4 * (j - 1) + 3]

\* visit_map of the derived Deserialize: an unknown key is ignored with its
\* value, whatever JSON value that is; a known key may appear once and must
\* type-check, every required key must appear.
ParseObject(inner) ==
    LET n == MemberCount(inner)
        At(f) == { j \in 1..n : MemberKey(inner, j) = <<f>> }
        One(f) == CHOOSE j \in At(f) : TRUE
    IN  IF /\ MembersWellFormed(inner)
           /\ \A f \in FieldSet : Cardinality(At(f)) <= 1
           /\ \A f \in RequiredFields : At(f) # {}
           /\ \A f \in FieldSet : \A j \in At(f) : TypeOk(f, MemberVal(inner, j))
        THEN [ok |-> TRUE,
              data |-> [f \in FieldSet |->
                          IF At(f) = {} THEN NoSession
                          ELSE FieldValue(f, MemberVal(inner, One(f)))]]
        ELSE ParseErr

\* The elements of an array: inner is the token sequence between the brackets.
ElementsWellFormed(inner) ==
    \/ inner = <<>>
    \/ /\ Len(inner) % 2 = 1
       /\ \A j \in 1..Len(inner) :
            IF j % 2 = 1 THEN IsValue(inner[j]) ELSE inner[j] = Comma

\* visit_seq of the derived Deserialize: the elements are the fields in
\* declaration order, none missing and none left over.
ParseArray(inner) ==
    IF /\ ElementsWellFormed(inner)
       /\ Len(inner) = 2 * Len(FieldNames) - 1
       /\ \A i \in 1..Len(FieldNames) : TypeOk(FieldNames[i], inner[2 * i - 1])
    THEN [ok |-> TRUE,
          data |-> [f \in FieldSet |->
                      LET p == CHOOSE q \in 1..Len(FieldNames) : FieldNames[q] = f
                      IN  FieldValue(f, inner[2 * p - 1])]]
    ELSE ParseErr

\* Mutant of FromStr: a line that is no object and no array is read as
\* positional fields, missing or unparseable ones taking a default.
FromStrLenient(line) ==
    LET ts == SkipWs(line)
        n == Len(ts)
    IN  IF n >= 1 /\ ts[1].k \in {"bare", "int", "float"}
        THEN [ok |-> TRUE,
              data |-> [f \in FieldSet |->
                          IF f = "sessionID" THEN NoSession
                          ELSE IF f = "timestamp"
                               THEN (IF n >= 3 THEN ts[3].s ELSE <<>>)
                               ELSE 0]]
        ELSE IF n < 2 THEN ParseErr
        ELSE IF ts[1] = LBrace /\ ts[n] = RBrace
             THEN ParseObject(Collapse(SubSeq(ts, 2, n - 1)))
        ELSE IF ts[1] = LBrack /\ ts[n] = RBrack
             THEN ParseArray(Collapse(SubSeq(ts, 2, n - 1)))
        ELSE ParseErr

FromStr(line) ==
    LET ts == SkipWs(line)
        n == Len(ts)
    IN  IF n < 2 THEN ParseErr
        ELSE IF ts[1] = LBrace /\ ts[n] = RBrace
             THEN ParseObject(Collapse(SubSeq(ts, 2, n - 1)))
        ELSE IF ts[1] = LBrack /\ ts[n] = RBrack
             THEN ParseArray(Collapse(SubSeq(ts, 2, n - 1)))
        ELSE ParseErr

(***************************************************************************)
(* What handle_client does with one line it has read (the body of the      *)
(* Ok(line) arm up to the insert): "blank", "keepalive" (marker in the raw *)
(* line), "keepalive_ts" (parsed, timestamp is or contains keepalive),     *)
(* "malformed" (serde_json error) or "record" with the data to insert.     *)
(***************************************************************************)
Decode(raw) ==
    LET line == Trim(raw)
        parsed == FromStr(line)
    IN  IF line = <<>> THEN [kind |-> "blank", data |-> <<>>]
        ELSE IF HasKeepaliveMarker(line) THEN [kind |-> "keepalive", data |-> <<>>]
        ELSE IF ~parsed.ok THEN [kind |-> "malformed", data |-> <<>>]
        ELSE IF parsed.data["timestamp"] = <<"keepalive">>
                \/ ContainsKeepalive(parsed.data["timestamp"])
             THEN [kind |-> "keepalive_ts", data |-> <<>>]
        ELSE [kind |-> "record", data |-> parsed.data]

(***************************************************************************)
(* The lines clients send in this model.  Pairs builds the members of an   *)
(* object from a sequence of <<key token, value token>> pairs, Csv the     *)
(* fields of a comma-separated line.                                       *)
(***************************************************************************)
RECURSIVE Pairs(_)
Pairs(ps) ==
    IF ps = <<>> THEN <<>>
    ELSE <<ps[1][1], Colon, ps[1][2]>>
         \o (IF Len(ps) > 1 THEN <<Comma>> ELSE <<>>) \o Pairs(Tail(ps))

RECURSIVE Csv(_)
Csv(fs) ==
    IF fs = <<>> THEN <<>>
    ELSE <<fs[1]>> \o (IF Len(fs) > 1 THEN <<Comma>> ELSE <<>>) \o Csv(Tail(fs))

Obj(ps) == <<LBrace>> \o Pairs(ps) \o <<RBrace>>
Arr(fs) == <<LBrack>> \o Csv(fs) \o <<RBrack>>

\* The thirteen f64 members, every one with value v.
Scalars(v) == [i \in 1..13 |-> <<Key(FieldNames[i + 2]), v>>]

Stamp == Str(<<"2024-01-01T00:00:00Z">>)

\* The members "timestamp":"t" and the thirteen f64 members at 1.5.
Reading == Pairs(<<<<Key("timestamp"), Str(<<"t">>)>>>> \o Scalars(Flt(15)))

SampleLines ==
    << \* 1: a full reading, session 7
       Obj(<<<<Key("sessionID"), Num(7)>>, <<Key("timestamp"), Stamp>>>> \o Scalars(Flt(15))),
       \* 2: a reading without sessionID (14 members)
       Obj(<<<<Key("timestamp"), Str(<<"t">>)>>>> \o Scalars(Num(2))),
       \* 3: {"type":"keepalive"}
       Obj(<<<<Key("type"), Str(<<"keepalive">>)>>>>),
       \* 4: a full reading whose timestamp is "keepalive"
       Obj(<<<<Key("sessionID"), Num(7)>>, <<Key("timestamp"), Str(<<"keepalive">>)>>>>
           \o Scalars(Flt(15))),
       \* 5: a full reading whose timestamp contains "keepalive"
       Obj(<<<<Key("sessionID"), Lit("null")>>,
             <<Key("timestamp"), Str(<<"x-", "keepalive", "-1">>)>>>> \o Scalars(Num(0))),
       \* 6: a full reading that also carries "type":"keepalive"
       Obj(<<<<Key("type"), Str(<<"keepalive">>)>>, <<Key("timestamp"), Stamp>>>>
           \o Scalars(Flt(15))),
       \* 7: None,2024-01-01T00:00:00Z,1.0,2.0,3.0,0,0,0,0,0,0,0,0,0,0
       Csv(<<Bare("None"), Bare("2024-01-01T00:00:00Z"), Flt(10), Flt(20), Flt(30)>>
           \o [i \in 1..10 |-> Num(0)]),
       \* 8: 7,t,abc,2.0,... (15 fields, one scalar unparseable)
       Csv(<<Num(7), Bare("t"), Bare("abc"), Flt(20), Flt(30)>> \o [i \in 1..10 |-> Num(0)]),
       \* 9: 7,t,1,2
       Csv(<<Num(7), Bare("t"), Num(1), Num(2)>>),
       \* 10: 7,keepalive,0,... (15 fields, timestamp keepalive)
       Csv(<<Num(7), Bare("keepalive")>> \o [i \in 1..13 |-> Num(0)]),
       \* 11: an empty line
       <<>>,
       \* 12: a line of whitespace
       <<Ws, Ws>>,
       \* 13: a reading with dac_4 missing
       Obj(<<<<Key("timestamp"), Stamp>>>> \o SubSeq(Scalars(Flt(15)), 1, 12)),
       \* 14: a reading whose latitude is a string
       Obj(<<<<Key("timestamp"), Stamp>>, <<Key("latitude"), Str(<<"1.0">>)>>>>
           \o Tail(Scalars(Flt(15)))),
       \* 15: a reading whose sessionID is 7.5
       Obj(<<<<Key("sessionID"), Flt(75)>>, <<Key("timestamp"), Stamp>>>> \o Scalars(Flt(15))),
       \* 16: line 1 with surrounding whitespace and a space after the brace
       <<Ws, LBrace, Ws>>
       \o Pairs(<<<<Key("sessionID"), Num(7)>>, <<Key("timestamp"), Stamp>>>> \o Scalars(Flt(15)))
       \o <<RBrace, Ws>>,
       \* 17: line 1 cut short (no closing brace)
       <<LBrace>> \o Pairs(<<<<Key("timestamp"), Stamp>>>> \o Scalars(Flt(15))),
       \* 18: {"type": "keepalive"} (a space after the colon)
       <<LBrace, Key("type"), Colon, Ws, Str(<<"keepalive">>), RBrace>>,
       \* 19: a reading as a JSON array of the fifteen fields in order
       Arr(<<Num(3), Str(<<"t">>)>> \o [i \in 1..13 |-> Flt(5)]),
       \* 20: a reading with timestamp given twice
       Obj(<<<<Key("timestamp"), Stamp>>, <<Key("timestamp"), Stamp>>>> \o Scalars(Flt(15))),
       \* 21: 7,t,0,... (14 fields)
       Csv(<<Num(7), Bare("t")>> \o [i \in 1..12 |-> Num(0)]),
       \* 22: hello (one field)
       <<Bare("hello")>>,
       \* 23: line 1 without its first four tokens, {"sessionID":7
       <<Comma>> \o Pairs(<<<<Key("timestamp"), Stamp>>>> \o Scalars(Flt(15))) \o <<RBrace>>,
       \* 24: line 16 without its leading whitespace
       <<LBrace, Ws>>
       \o Pairs(<<<<Key("sessionID"), Num(7)>>, <<Key("timestamp"), Stamp>>>> \o Scalars(Flt(15)))
       \o <<RBrace, Ws>>,
       \* 25: {"extra":{},"timestamp":"t",...}: an unknown key with an object
       <<LBrace, Key("extra"), Colon, LBrace, RBrace, Comma>> \o Reading \o <<RBrace>>,
       \* 26: {"extra":[1,2],"timestamp":"t",...}: an unknown key with an array
       <<LBrace, Key("extra"), Colon, LBrack, Num(1), Comma, Num(2), RBrack, Comma>>
       \o Reading \o <<RBrace>>,
       \* 27: {"extra":{"a":[{}],"b":null},"timestamp":"t",...}: values inside values
       <<LBrace, Key("extra"), Colon,
         LBrace, Key("a"), Colon, LBrack, LBrace, RBrace, RBrack, Comma,
                 Key("b"), Colon, Lit("null"), RBrace, Comma>>
       \o Reading \o <<RBrace>>,
       \* 28: {"extra":{"a":},"timestamp":"t",...}: the inner object is broken
       <<LBrace, Key("extra"), Colon, LBrace, Key("a"), Colon, RBrace, Comma>>
       \o Reading \o <<RBrace>>,
       \* 29: {"timestamp":"t",...,"dac_4":1.5,"latitude":[1.5]}: latitude given
       \* twice, once as an array
       <<LBrace>> \o Reading
       \o <<Comma, Key("latitude"), Colon, LBrack, Flt(15), RBrack, RBrace>>,
       \* 30: {"timestamp":"t","latitude":[1.5],"longitude":1.5,...}: a field
       \* whose value is an array
       <<LBrace, Key("timestamp"), Colon, Str(<<"t">>), Comma,
         Key("latitude"), Colon, LBrack, Flt(15), RBrack, Comma>>
       \o Pairs(Tail(Scalars(Flt(15)))) \o <<RBrace>>,
       \* 31: the first four tokens of line 1, {"sessionID":7
       <<LBrace, Key("sessionID"), Colon, Num(7)>>,
       \* 32: the first token of line 16, one blank
       <<Ws>>,
       \* 33: "a"type":"keepalive"x" -- the marker's first quote closes a
       \* string and its last quote opens one
       <<Str(<<"a">>), Bare("type"), Str(<<":">>), Bare("keepalive"), Str(<<"x">>)>>,
       \* 34: {"b"type":"keepalive"x"} -- the same inside braces
       <<LBrace, Str(<<"b">>), Bare("type"), Str(<<":">>), Bare("keepalive"),
         Str(<<"x">>), RBrace>>,
       \* 35: {"type" :"keepalive","timestamp":"t",...}: a full reading that
       \* carries the discriminator with a space before the colon
       <<LBrace, Key("type"), Ws, Colon, Str(<<"keepalive">>), Comma>>
       \o Reading \o <<RBrace>>
    >>

NumLines == Len(SampleLines)

\* The outcome of every sample line, computed once.
Outcome == [i \in 1..NumLines |-> Decode(SampleLines[i])] @@ <<>>

\* split(',') on the text of a line: the number of fields.
FieldCount(line) == Cardinality({ i \in 1..Len(line) : line[i] = Comma }) + 1

\* A line in the delimited encoding: bare fields separated by commas.
IsDelimited(line) ==
    /\ line # <<>>
    /\ \A i \in 1..Len(line) :
         IF i % 2 = 1 THEN line[i].k \in {"bare", "int", "float"} ELSE line[i] = Comma

(***************************************************************************)
(* Bounds of the model.                                                    *)
(***************************************************************************)
\* Connections the listener hands out in one run.
MaxConns == 2
\* Read results (lines and timeouts) delivered to the handlers in one run of Spec.
MaxReads == 2
\* Connections handed out and read results delivered in one run of SpecDecode.
DecodeConns == 1
DecodeReads == 1
LiveReads == 1
PartialReads == 2
\* Read results delivered to the two handlers in one run of SpecPair.
PairReads == 4

Conns == 1..MaxConns

\* The lines clients send in Spec: a full reading and the line 7,t,1,2.
StreamLines == {1, 9}
\* Every sample line.
AllLines == 1..NumLines
\* The comma-separated lines.
DelimitedLines == {7, 8, 9, 10, 21, 22}
\* The lines clients send in SpecDelimited: the comma-separated lines and a
\* full reading.
DelimitedStream == DelimitedLines \cup {1}
\* The lines clients send in SpecPair: a full reading.
PairLines == {1}
\* The lines clients send in SpecDecode: every kind of line, whole (the
\* pieces and tails of lines 23, 24, 31 and 32 come up in SpecPartial, the
\* other comma-separated lines in SpecDelimited).
DecodeLines == AllLines \ {8, 21, 22, 23, 24, 31, 32}

(***************************************************************************)
(* State.                                                                  *)
(*   running         the Arc<Mutex<bool>> shared with the ctrl-c handler   *)
(*   armed           the thread that runs the ctrl-c handler is alive      *)
(*   mpc             where main is: "guard" (line 95), "accept" (96),      *)
(*                   "accepterr" (132), "open" (98-106), "spawn" (115),    *)
(*                   "spawnfail" (115: thread::spawn is panicking),        *)
(*                   "retain" (125), "drain" (139), "join" (142),          *)
(*                   "done" (147) or "panicked" (the process ended by a    *)
(*                   panic of the main thread)                             *)
(*   cur             the connection main has accepted and is setting up    *)
(*   client_threads  the Vec of join handles, as connection numbers        *)
(*   accepts         how many accept() calls have returned Ok              *)
(*   hpc             per connection: "none" (not accepted yet),            *)
(*                   "accepted", "dropped" (the stream was dropped before  *)
(*                   a thread had it), "start" (thread spawned, line 152), *)
(*                   "reading" (158), "insert" (186), "done" (the thread   *)
(*                   has ended, by returning or by a panic of its own, and *)
(*                   its stream and store handle are released), "killed"   *)
(*                   (the process ended while the thread was running)      *)
(*   hist            per connection, the lines lines() has yielded so far  *)
(*                   and what became of each: "blank", "keepalive",        *)
(*                   "keepalive_ts" or "malformed" for a line that is no   *)
(*                   reading; for a reading "pending" (on its way to the   *)
(*                   insert), "inserted", "dberror" (execute failed) or    *)
(*                   "aborted" (the thread ended before the insert)        *)
(*   sensor_data     the rows of the table, in insertion order; a row left *)
(*                   by an earlier run has conn = 0                        *)
(* History counters: spawns (thread::spawn calls), lateAccepts and         *)
(* lateSpawns (those made while running was already false), execs          *)
(* (conn.execute calls per connection), reads (read results delivered).    *)
(*   frag            per connection, the line that is arriving in pieces:  *)
(*                   line (the sample line the client is sending, 0 when   *)
(*                   none), sent (how many of its tokens read_until has    *)
(*                   consumed from the BufReader), held (how many of those *)
(*                   are in the String of the lines() call still running), *)
(*                   closed (the peer closed before the line was complete) *)
(*                                                                         *)
(* println! and eprintln! panic when the write to stdout or stderr fails   *)
(* (a closed pipe, a full disk), and they block while a pipe is full.      *)
(* Every step that prints therefore has two outcomes, chosen by `printed`: *)
(* the text was written, or the macro panicked.  A panic in a handler      *)
(* thread ends that thread; a panic in main ends the process; a panic in   *)
(* the ctrl-c thread ends that thread.  Blocking is the step not being     *)
(* taken: no fairness is assumed of a step that prints.                    *)
(***************************************************************************)
VARIABLES running, armed, mpc, cur, client_threads, accepts, hpc, hist,
          sensor_data, spawns, lateAccepts, lateSpawns, execs, reads, frag

vars == <<running, armed, mpc, cur, client_threads, accepts, hpc, hist,
          sensor_data, spawns, lateAccepts, lateSpawns, execs, reads, frag>>

mainVars == <<mpc, cur, client_threads, accepts, spawns, lateAccepts, lateSpawns>>
handlerVars == <<hpc, hist, sensor_data, execs, reads, frag>>

NoFragment == [line |-> 0, sent |-> 0, held |-> 0, closed |-> FALSE]

\* What received_data.db may hold when the server starts: CREATE TABLE IF NOT
\* EXISTS (lines 58-78) keeps the rows of an earlier run.
PriorRow == [conn |-> 0, idx |-> 0, data |-> Outcome[1].data]
PriorTables == { <<>>, <<PriorRow>> }

Init ==
    /\ running = TRUE
    /\ armed = TRUE
    /\ mpc = "guard"
    /\ cur = 0
    /\ client_threads = <<>>
    /\ accepts = 0
    /\ hpc = [c \in Conns |-> "none"]
    /\ hist = [c \in Conns |-> <<>>]
    /\ sensor_data \in PriorTables
    /\ spawns = 0
    /\ lateAccepts = 0
    /\ lateSpawns = 0
    /\ execs = [c \in Conns |-> 0]
    /\ reads = 0
    /\ frag = [c \in Conns |-> NoFragment]

(***************************************************************************)
(* The ctrl-c handler (lines 85-89).  The signal may arrive at any time,   *)
(* any number of times; the handler runs on a thread of its own, prints    *)
(* (line 86) and then stores false (lines 87-88).  When the println!       *)
(* panics, the flag is not written and the thread is gone: later signals   *)
(* run no handler.  Once the flag is false the handler has nothing left to *)
(* change: a failed print then leaves every variable as it was, and the    *)
(* end of the thread is recorded in armed only while the flag is still     *)
(* true.  A process that has ended (main returned or panicked) handles no  *)
(* signal.                                                                 *)
(***************************************************************************)
\* Mutant of CtrlC: the signal flips the flag.
CtrlCToggles ==
    /\ armed
    /\ mpc \notin {"done", "panicked"}
    /\ \/ running' = ~running /\ armed' = armed
       \/ running /\ running' = running /\ armed' = FALSE
    /\ UNCHANGED <<mainVars, handlerVars>>

CtrlC ==
    /\ armed
    /\ mpc \notin {"done", "panicked"}
    /\ \/ running' = FALSE /\ armed' = armed
       \/ running /\ running' = running /\ armed' = FALSE
    /\ UNCHANGED <<mainVars, handlerVars>>

(***************************************************************************)
(* main.                                                                   *)
(***************************************************************************)
\* What becomes of the connections when main panics while it holds the
\* stream of connection c (0: none): that stream is dropped, and the process
\* ends with every handler thread that was running.
KilledBy(c) ==
    [d \in Conns |->
        IF d = c THEN "dropped"
        ELSE IF hpc[d] \in {"start", "reading", "insert"} THEN "killed"
        ELSE hpc[d]]

\* Mutant of LoopGuard: the loop goes on whatever the flag says.
LoopGuardIgnoresFlag ==
    /\ mpc = "guard"
    /\ mpc' = "accept"
    /\ UNCHANGED <<running, armed, cur, client_threads, accepts, spawns, lateAccepts,
                   lateSpawns, handlerVars>>

\* while *running.lock().unwrap()  (line 95)
LoopGuard ==
    /\ mpc = "guard"
    /\ mpc' = IF running THEN "accept" ELSE "drain"
    /\ UNCHANGED <<running, armed, cur, client_threads, accepts, spawns, lateAccepts,
                   lateSpawns, handlerVars>>

\* listener.accept() returns Ok((stream, addr))  (line 96)
AcceptOk(limit) ==
    /\ mpc = "accept"
    /\ accepts < limit
    /\ accepts' = accepts + 1
    /\ cur' = accepts + 1
    /\ hpc' = [hpc EXCEPT ![accepts + 1] = "accepted"]
    /\ lateAccepts' = IF running THEN lateAccepts ELSE lateAccepts + 1
    /\ mpc' = "open"
    /\ UNCHANGED <<running, armed, client_threads, spawns, lateSpawns, hist,
                   sensor_data, execs, reads, frag>>

\* listener.accept() returns Err  (lines 96, 127-130): on WouldBlock main
\* sleeps 100 ms and goes to the next iteration, on any other error it goes
\* on to report it.
AcceptErr ==
    /\ mpc = "accept"
    /\ \E kind \in {"WouldBlock", "Other"} :
         mpc' = IF kind = "WouldBlock" THEN "guard" ELSE "accepterr"
    /\ UNCHANGED <<running, armed, cur, client_threads, accepts, spawns, lateAccepts,
                   lateSpawns, handlerVars>>

\* eprintln!("Connection error: ..") and the 100 ms sleep  (lines 132-133)
ReportAcceptErr ==
    /\ mpc = "accepterr"
    /\ \E printed \in BOOLEAN :
         IF printed
         THEN mpc' = "guard" /\ UNCHANGED hpc
         ELSE mpc' = "panicked" /\ hpc' = KilledBy(0)
    /\ UNCHANGED <<running, armed, cur, client_threads, accepts, spawns, lateAccepts,
                   lateSpawns, hist, sensor_data, execs, reads, frag>>

\* println!("Client connected"), set_nonblocking(false) and Connection::open
\* for the new thread  (lines 98-112): on Err of the open the error is
\* printed, the stream is dropped and the loop continues.  (When
\* set_nonblocking fails the stream stays non-blocking and its reads answer
\* WouldBlock, which ReadIdle covers.)
OpenStore ==
    /\ mpc = "open"
    /\ \E printed \in BOOLEAN, ok \in BOOLEAN :
         IF ~printed
         THEN /\ mpc' = "panicked"
              /\ hpc' = KilledBy(cur)
              /\ UNCHANGED cur
         ELSE IF ok
         THEN /\ mpc' = "spawn"
              /\ UNCHANGED <<cur, hpc>>
         ELSE /\ mpc' = "guard"
              /\ cur' = 0
              /\ hpc' = [hpc EXCEPT ![cur] = "dropped"]
    /\ UNCHANGED <<running, armed, client_threads, accepts, spawns, lateAccepts,
                   lateSpawns, hist, sensor_data, execs, reads, frag>>

\* Mutant of Spawn: the handle is not kept.
SpawnUntracked ==
    /\ mpc = "spawn"
    /\ \E ok \in BOOLEAN :
         IF ok
         THEN /\ hpc' = [hpc EXCEPT ![cur] = "start"]
              /\ spawns' = spawns + 1
              /\ lateSpawns' = IF running THEN lateSpawns ELSE lateSpawns + 1
              /\ mpc' = "retain"
         ELSE /\ hpc' = [hpc EXCEPT ![cur] = "dropped"]
              /\ mpc' = "spawnfail"
              /\ UNCHANGED <<spawns, lateSpawns>>
    /\ UNCHANGED <<running, armed, cur, client_threads, accepts, lateAccepts, hist,
                   sensor_data, execs, reads, frag>>

\* thread::spawn and client_threads.push(handle)  (lines 115-122).  When the
\* OS cannot create the thread, the closure is dropped, and with it the
\* stream and the store handle it had taken, and thread::spawn begins to
\* panic in main.
Spawn ==
    /\ mpc = "spawn"
    /\ \E ok \in BOOLEAN :
         IF ok
         THEN /\ hpc' = [hpc EXCEPT ![cur] = "start"]
              /\ client_threads' = Append(client_threads, cur)
              /\ spawns' = spawns + 1
              /\ lateSpawns' = IF running THEN lateSpawns ELSE lateSpawns + 1
              /\ mpc' = "retain"
         ELSE /\ hpc' = [hpc EXCEPT ![cur] = "dropped"]
              /\ mpc' = "spawnfail"
              /\ UNCHANGED <<client_threads, spawns, lateSpawns>>
    /\ UNCHANGED <<running, armed, cur, accepts, lateAccepts, hist, sensor_data, execs,
                   reads, frag>>

\* The panic of thread::spawn  (line 115): the panic message is written to
\* stderr, which may block on a full pipe like any print, and then the
\* process ends, and every handler thread with it.  Until then the handlers
\* and the ctrl-c handler go on.
SpawnPanic ==
    /\ mpc = "spawnfail"
    /\ mpc' = "panicked"
    /\ hpc' = KilledBy(0)
    /\ UNCHANGED <<running, armed, cur, client_threads, accepts, spawns, lateAccepts,
                   lateSpawns, hist, sensor_data, execs, reads, frag>>

\* h.is_finished(): the thread has ended, by returning or by panicking.
IsFinished(c) == hpc[c] = "done"

\* Mutant of Retain: the test is inverted, the finished handles are kept.
RetainFinished ==
    /\ mpc = "retain"
    /\ client_threads' = SelectSeq(client_threads, LAMBDA c : IsFinished(c))
    /\ cur' = 0
    /\ mpc' = "guard"
    /\ UNCHANGED <<running, armed, accepts, spawns, lateAccepts, lateSpawns,
                   handlerVars>>

\* client_threads.retain(|h| !h.is_finished())  (line 125)
Retain ==
    /\ mpc = "retain"
    /\ client_threads' = SelectSeq(client_threads, LAMBDA c : ~IsFinished(c))
    /\ cur' = 0
    /\ mpc' = "guard"
    /\ UNCHANGED <<running, armed, accepts, spawns, lateAccepts, lateSpawns,
                   handlerVars>>

\* println!("Server shutting down...")  (line 139)
AnnounceDrain ==
    /\ mpc = "drain"
    /\ \E printed \in BOOLEAN :
         IF printed
         THEN mpc' = "join" /\ UNCHANGED hpc
         ELSE mpc' = "panicked" /\ hpc' = KilledBy(0)
    /\ UNCHANGED <<running, armed, cur, client_threads, accepts, spawns, lateAccepts,
                   lateSpawns, hist, sensor_data, execs, reads, frag>>

\* for handle in client_threads { let _ = handle.join(); }  (lines 142-144):
\* join returns once the thread has ended; its result is ignored.
Join ==
    /\ mpc = "join"
    /\ client_threads # <<>>
    /\ IsFinished(Head(client_threads))
    /\ client_threads' = Tail(client_threads)
    /\ UNCHANGED <<running, armed, mpc, cur, accepts, spawns, lateAccepts, lateSpawns,
                   handlerVars>>

\* println!("Server shutdown complete"), Ok(())  (lines 146-147)
Exit ==
    /\ mpc = "join"
    /\ client_threads = <<>>
    /\ \E printed \in BOOLEAN :
         IF printed
         THEN mpc' = "done" /\ UNCHANGED hpc
         ELSE mpc' = "panicked" /\ hpc' = KilledBy(0)
    /\ UNCHANGED <<running, armed, cur, client_threads, accepts, spawns, lateAccepts,
                   lateSpawns, hist, sensor_data, execs, reads, frag>>

(***************************************************************************)
(* handle_client, one thread per connection.                               *)
(***************************************************************************)
Entry(i, d) == [line |-> i, disp |-> d]

\* stream.set_read_timeout(..)?  (line 152): an Err returns from handle_client.
SetTimeout(c) ==
    /\ hpc[c] = "start"
    /\ \E ok \in BOOLEAN :
         IF ok
         THEN hpc' = [hpc EXCEPT ![c] = "reading"]
         ELSE hpc' = [hpc EXCEPT ![c] = "done"]
    /\ UNCHANGED <<running, armed, mainVars, hist, sensor_data, execs, reads, frag>>

\* The body of the Ok(line) arm up to the insert  (lines 161-183, 205-208)
\* for sample line i.  A blank line is skipped before anything is printed.
\* Any other line is printed (line 168) and then skipped with a message
\* (lines 172, 181), reported as invalid (lines 206-207) or taken on to the
\* insert.  When one of these prints panics the thread ends there: a line
\* that is no reading is dropped as it would have been, a reading never
\* reaches the insert.
Taken(c, i, printed) ==
    LET kind == Outcome[i].kind
    IN  IF kind = "blank"
        THEN /\ hist' = [hist EXCEPT ![c] = Append(@, Entry(i, "blank"))]
             /\ UNCHANGED hpc
        ELSE IF ~printed
        THEN /\ hist' = [hist EXCEPT ![c] =
                           Append(@, Entry(i, IF kind = "record" THEN "aborted" ELSE kind))]
             /\ hpc' = [hpc EXCEPT ![c] = "done"]
        ELSE IF kind = "record"
        THEN /\ hist' = [hist EXCEPT ![c] = Append(@, Entry(i, "pending"))]
             /\ hpc' = [hpc EXCEPT ![c] = "insert"]
        ELSE /\ hist' = [hist EXCEPT ![c] = Append(@, Entry(i, kind))]
             /\ UNCHANGED hpc

\* lines() yields Ok(line) for sample line i  (lines 158-183, 205-208).
ReadLine(c, i, budget) ==
    /\ hpc[c] = "reading"
    /\ frag[c].line = 0
    /\ reads < budget
    /\ reads' = reads + 1
    /\ \E printed \in BOOLEAN : Taken(c, i, printed)
    /\ UNCHANGED <<running, armed, mainVars, sensor_data, execs, frag>>

\* lines() yields Err of kind TimedOut or WouldBlock  (lines 213-218):
\* continue, nothing is printed.  The String of that lines() call is dropped
\* with whatever part of a line it held (line 158: every call starts a new
\* String).  A read does not time out once the peer has closed.
ReadIdle(c, budget) ==
    /\ hpc[c] = "reading"
    /\ ~frag[c].closed
    /\ reads < budget
    /\ reads' = reads + 1
    /\ \E kind \in {"TimedOut", "WouldBlock"} : hpc' = [hpc EXCEPT ![c] = "reading"]
    /\ frag' = [frag EXCEPT ![c].held = 0]
    /\ UNCHANGED <<running, armed, mainVars, hist, sensor_data, execs>>

\* Mutant of ReadError: a read error on one connection stops the server.
ReadErrorStopsServer(c) ==
    /\ hpc[c] = "reading"
    /\ hpc' = [hpc EXCEPT ![c] = "done"]
    /\ running' = FALSE
    /\ UNCHANGED <<armed, mainVars, hist, sensor_data, execs, reads, frag>>

\* lines() yields Err of any other kind  (lines 219-223, 228-229, 116-119):
\* break.  The thread ends whether the prints on its way out are written or
\* panic.
ReadError(c) ==
    /\ hpc[c] = "reading"
    /\ hpc' = [hpc EXCEPT ![c] = "done"]
    /\ UNCHANGED <<running, armed, mainVars, hist, sensor_data, execs, reads, frag>>

\* lines() ends  (lines 226-229, 116-119): the peer has closed and the String
\* of this lines() call is empty (read_line returned 0 bytes).  The thread
\* ends whether the prints on its way out are written or panic.
ReadEof(c) ==
    /\ hpc[c] = "reading"
    /\ frag[c].held = 0
    /\ hpc' = [hpc EXCEPT ![c] = "done"]
    /\ UNCHANGED <<running, armed, mainVars, hist, sensor_data, execs, reads, frag>>

\* The lines that arrive in two pieces, each with the number of tokens in
\* its first piece: line 1 cut after {"sessionID":7 and line 16 cut after its
\* leading whitespace.
Fragments == { <<1, 4>>, <<16, 1>> }

\* The sample line with this text.
LineId(text) == CHOOSE j \in AllLines : SampleLines[j] = text

\* The first n tokens of line i arrive without a newline  (line 158): inside
\* the lines() call read_until moves them from the BufReader into the call's
\* String and waits for more.
ReadFragment(c, i, n) ==
    /\ hpc[c] = "reading"
    /\ frag[c].line = 0
    /\ frag' = [frag EXCEPT ![c] = [line |-> i, sent |-> n, held |-> n,
                                    closed |-> FALSE]]
    /\ UNCHANGED <<running, armed, mainVars, hpc, hist, sensor_data, execs, reads>>

\* The rest of the line arrives with its newline  (lines 158-183, 205-208):
\* lines() yields what its String holds, the held part of the line followed
\* by the rest, and the handler treats that as it treats any line.
ReadTail(c, budget) ==
    /\ hpc[c] = "reading"
    /\ frag[c].line # 0
    /\ ~frag[c].closed
    /\ reads < budget
    /\ reads' = reads + 1
    /\ LET whole == SampleLines[frag[c].line]
           i == LineId(SubSeq(whole, frag[c].sent - frag[c].held + 1, Len(whole)))
       IN  \E printed \in BOOLEAN : Taken(c, i, printed)
    /\ frag' = [frag EXCEPT ![c] = NoFragment]
    /\ UNCHANGED <<running, armed, mainVars, sensor_data, execs>>

\* The peer closes while the String of the lines() call holds a piece of a
\* line  (lines 158-183, 205-208): read_line returns the piece, lines()
\* yields it as a line of its own and the handler treats it as any line.
\* The call after that finds the end of the stream.
ReadPiece(c, budget) ==
    /\ hpc[c] = "reading"
    /\ frag[c].line # 0
    /\ frag[c].held > 0
    /\ reads < budget
    /\ reads' = reads + 1
    /\ LET whole == SampleLines[frag[c].line]
           i == LineId(SubSeq(whole, frag[c].sent - frag[c].held + 1, frag[c].sent))
       IN  \E printed \in BOOLEAN : Taken(c, i, printed)
    /\ frag' = [frag EXCEPT ![c] = [line |-> frag[c].line, sent |-> 0, held |-> 0,
                                    closed |-> TRUE]]
    /\ UNCHANGED <<running, armed, mainVars, sensor_data, execs>>

\* Mutant of InsertRow: the new row goes in front.
InsertRowFirst(table, row) == <<row>> \o table

\* INSERT INTO sensor_data: the row goes after the rows already there.
InsertRow(table, row) == Append(table, row)

\* What handle_client does after conn.execute returns  (lines 199-203): it
\* prints the error (line 200) or the success (line 202) and goes on with
\* the next line; when that print panics the thread ends.
AfterExecute(ok, printed) == IF printed THEN "reading" ELSE "done"

\* conn.execute(INSERT ...) for the line read last  (lines 186-203)
Insert(c) ==
    /\ hpc[c] = "insert"
    /\ execs' = [execs EXCEPT ![c] = @ + 1]
    /\ \E ok \in BOOLEAN, printed \in BOOLEAN :
         LET k == Len(hist[c])
             i == hist[c][k].line
         IN  /\ hpc' = [hpc EXCEPT ![c] = AfterExecute(ok, printed)]
             /\ IF ok
                THEN /\ sensor_data' = InsertRow(sensor_data,
                                          [conn |-> c, idx |-> k, data |-> Outcome[i].data])
                     /\ hist' = [hist EXCEPT ![c][k].disp = "inserted"]
                ELSE /\ hist' = [hist EXCEPT ![c][k].disp = "dberror"]
                     /\ UNCHANGED sensor_data
    /\ UNCHANGED <<running, armed, mainVars, reads, frag>>

(***************************************************************************)
(* The specifications.  Step(lines, budget, limit) is one step of any      *)
(* thread when clients send lines from `lines`, at most `budget` read      *)
(* results are delivered and at most `limit` connections are handed out.   *)
(***************************************************************************)
\* The steps of main that print nothing.
MainQuiet(limit) ==
    \/ LoopGuard
    \/ AcceptOk(limit)
    \/ AcceptErr
    \/ Spawn
    \/ Retain
    \/ Join

\* The steps of main that print.
MainPrints ==
    \/ ReportAcceptErr
    \/ OpenStore
    \/ SpawnPanic
    \/ AnnounceDrain
    \/ Exit

MainStep(limit) == MainQuiet(limit) \/ MainPrints

HandlerStep(c, lines, budget) ==
    \/ SetTimeout(c)
    \/ \E i \in lines : ReadLine(c, i, budget)
    \/ ReadIdle(c, budget)
    \/ ReadError(c)
    \/ ReadEof(c)
    \/ Insert(c)

Step(lines, budget, limit) ==
    \/ CtrlC
    \/ MainStep(limit)
    \/ \E c \in Conns : HandlerStep(c, lines, budget)

Next == Step(StreamLines, MaxReads, MaxConns)

Spec == Init /\ [][Next]_vars

NextDecode == Step(DecodeLines, DecodeReads, DecodeConns)

SpecDecode == Init /\ [][NextDecode]_vars

NextDelimited == Step(DelimitedStream, DecodeReads, DecodeConns)

SpecDelimited == Init /\ [][NextDelimited]_vars

\* Two clients that send readings only, up to PairReads lines between them.
NextPair == Step(PairLines, PairReads, MaxConns)

SpecPair == Init /\ [][NextPair]_vars

\* Clients may also send a line in two pieces.
NextPartial ==
    \/ Step(StreamLines, PartialReads, DecodeConns)
    \/ \E c \in Conns : \E f \in Fragments : ReadFragment(c, f[1], f[2])
    \/ \E c \in Conns : ReadTail(c, PartialReads)
    \/ \E c \in Conns : ReadPiece(c, PartialReads)

SpecPartial == Init /\ [][NextPartial]_vars

\* The main thread is never starved in a step that prints nothing: the
\* listener is non-blocking (accept returns at once, lines 51 and 96), the
\* loop only sleeps 100 ms, thread::spawn returns or begins to panic, retain
\* returns, and join returns once the thread has ended; so whenever main can
\* take such a step it eventually does.  Nothing is assumed of the steps
\* that print (a println!, and the panic message of a failed thread::spawn,
\* may block for ever on a full pipe), of the handlers or of the clients: a
\* handler may stay in its read for ever.
NextLive == Step(StreamLines, LiveReads, MaxConns)

SpecLive == Init /\ [][NextLive]_vars /\ WF_vars(MainQuiet(MaxConns))

(***************************************************************************)
(* Vocabulary of the properties.                                           *)
(***************************************************************************)
\* A handler thread exists for connection c and has not finished.
Running(c) == hpc[c] \in {"start", "reading", "insert"}

\* A handler thread was spawned for connection c.
Spawned(c) == hpc[c] \in {"start", "reading", "insert", "done", "killed"}

\* The arrival numbers of connection c's rows, in table order.
RECURSIVE RowsOf(_, _)
RowsOf(table, c) ==
    IF table = <<>> THEN <<>>
    ELSE (IF Head(table).conn = c THEN <<Head(table).idx>> ELSE <<>>)
         \o RowsOf(Tail(table), c)

\* seq lists exactly the members of S, each once, in increasing order.
ListsInOrder(seq, S) ==
    /\ Len(seq) = Cardinality(S)
    /\ { seq[i] : i \in 1..Len(seq) } = S
    /\ \A i, j \in 1..Len(seq) : i < j => seq[i] < seq[j]

\* Line k of connection c decodes as a reading.
IsRecordLine(c, k) == Outcome[hist[c][k].line].kind = "record"

\* The table holds a row for line k of connection c.
HasRow(c, k) == \E p \in 1..Len(sensor_data) :
                    sensor_data[p].conn = c /\ sensor_data[p].idx = k

\* In this step handler c took a line whose disposition is d.
Took(c, d) ==
    /\ Len(hist'[c]) = Len(hist[c]) + 1
    /\ hist'[c][Len(hist'[c])].disp = d

\* In this step handler c's execute for its last line returned an error.
ExecuteFailed(c) ==
    /\ hpc[c] = "insert"
    /\ hist'[c] # hist[c]
    /\ hist'[c][Len(hist'[c])].disp = "dberror"

(***************************************************************************)
(* C1.  Claim: after running has been set to false no accept() succeeds    *)
(* and no handler is spawned.                                              *)
(***************************************************************************)
\* C1 as claimed: in no step taken while running is false does the number of
\* successful accepts or of spawned handlers grow.
C1_NoAcceptAfterStop ==
    [][~running => (accepts' = accepts /\ spawns' = spawns)]_vars

\* C1 as amended: after running is false main finishes at most the loop
\* iteration it had already entered, so at most one accept succeeds and at
\* most one handler is spawned after the write, and none once main has
\* evaluated its loop guard after the write.
C1_AtMostOneLateIteration ==
    /\ [](lateAccepts <= 1 /\ lateSpawns <= 1)
    /\ [][(mpc \in {"drain", "join", "done"})
             => (accepts' = accepts /\ spawns' = spawns)]_vars

C1_Witness ==
    /\ ~running
    /\ lateAccepts = 1
    /\ lateSpawns = 1
    /\ mpc = "done"

(***************************************************************************)
(* C2.  Claim: main returns only when every handler ever spawned has       *)
(* finished.                                                               *)
(***************************************************************************)
\* C2: when main has reached "Server shutdown complete", every handler that
\* was spawned has finished.
C2_ExitAfterAllHandlers ==
    mpc = "done" => \A c \in Conns : Spawned(c) => hpc[c] = "done"

C2_Witness ==
    /\ mpc = "done"
    /\ spawns = 2
    /\ \A c \in 1..2 : hpc[c] = "done" /\ hist[c] # <<>>

(***************************************************************************)
(* C3.  Claim: the rows of one connection are in the table in the order    *)
(* their lines arrived.                                                    *)
(***************************************************************************)
\* C3: of two rows of the same connection, the one earlier in the table comes
\* from the line that arrived earlier.
C3_RowsInArrivalOrder ==
    \A p, q \in 1..Len(sensor_data) :
        (p < q /\ sensor_data[p].conn = sensor_data[q].conn)
            => sensor_data[p].idx < sensor_data[q].idx

C3_Witness ==
    \E p, q \in 1..Len(sensor_data) :
        /\ p < q
        /\ sensor_data[p].conn = sensor_data[q].conn
        /\ hist[sensor_data[p].conn][sensor_data[q].idx].disp = "inserted"

(***************************************************************************)
(* C4.  Claim: with two clients sending valid lines concurrently, once     *)
(* both have closed the table holds exactly one row per valid line, each   *)
(* client's rows in arrival order.                                         *)
(***************************************************************************)
\* C4 as claimed: once both connections have closed, the rows of each are
\* exactly the readings its client sent, one row each, in arrival order.
C4_EveryValidLineStored ==
    (\A c \in 1..2 : hpc[c] = "done") =>
        \A c \in 1..2 :
            ListsInOrder(RowsOf(sensor_data, c),
                         { k \in 1..Len(hist[c]) : IsRecordLine(c, k) })

(***************************************************************************)
(* C5.  Claim: each successful accept spawns exactly one handler and main  *)
(* goes on accepting without waiting for a handler.                        *)
(***************************************************************************)
\* C5 as claimed: once main is done with an accepted connection, exactly one
\* handler has been spawned for it.
C5_EveryAcceptSpawns ==
    mpc \in {"guard", "accept", "accepterr", "drain", "join", "done", "panicked"} =>
        /\ spawns = accepts
        /\ \A c \in 1..accepts : Spawned(c)

(***************************************************************************)
(* C6.  Claim: a malformed line never ends the connection.                 *)
(***************************************************************************)
\* C6 as claimed: the step in which a handler takes a line the decoder rejects leaves
\* the table alone, makes no execute call and leaves the handler reading; and
\* no row ever comes from such a line.
C6_MalformedKeepsReading ==
    /\ [][\A c \in Conns :
            Took(c, "malformed") =>
                /\ hpc'[c] = "reading"
                /\ sensor_data' = sensor_data
                /\ execs' = execs]_vars
    /\ [](\A c \in Conns : \A k \in 1..Len(hist[c]) :
            hist[c][k].disp = "malformed" => ~HasRow(c, k))

(***************************************************************************)
(* C7.  Claim: a failed insert is not retried and does not end the         *)
(* handler; its record is dropped.                                         *)
(***************************************************************************)
\* C7 as claimed: the step in which execute fails leaves the table alone and leaves the
\* handler reading; execute is called at most once per line; no row ever
\* comes from a line whose insert failed.
C7_FailedInsertDropped ==
    /\ [][\A c \in Conns :
            ExecuteFailed(c) => (hpc'[c] = "reading" /\ sensor_data' = sensor_data)]_vars
    /\ [](\A c \in Conns :
            /\ execs[c] = Cardinality({k \in 1..Len(hist[c]) :
                                          hist[c][k].disp \in {"inserted", "dberror"}})
            /\ \A k \in 1..Len(hist[c]) : hist[c][k].disp = "dberror" => ~HasRow(c, k))

(***************************************************************************)
(* C8.  Claim: a keepalive is never persisted and never closes the         *)
(* connection.                                                             *)
(***************************************************************************)
\* The tokens a line gives as its timestamp: the value of a "timestamp"
\* member, the second element of an array, the second field of a delimited
\* line.
TimestampTokens(ts) ==
    { ts[i + 2] : i \in { j \in 1..(Len(ts) - 2) :
                            ts[j] = Key("timestamp") /\ ts[j + 1] = Colon } }
    \cup (IF Len(ts) >= 4 /\ ts[1] = LBrack /\ ts[3] = Comma THEN {ts[4]} ELSE {})
    \cup (IF Len(ts) >= 3 /\ IsDelimited(ts) THEN {ts[3]} ELSE {})

\* The line carries the keepalive discriminator, or its timestamp is or
\* contains "keepalive".
IsKeepaliveLine(raw) ==
    LET ts == SkipWs(raw)
    IN  \/ HasKeepaliveMarker(ts)
        \/ \E t \in TimestampTokens(ts) : ContainsKeepalive(t.s)

\* IsKeepaliveLine of every sample line, computed once.
KeepaliveLine == [i \in 1..NumLines |-> IsKeepaliveLine(SampleLines[i])] @@ <<>>

RecordDisps == {"pending", "inserted", "dberror"}

\* C8 as claimed: a keepalive line is never taken as a record and never has a row, and
\* the step in which a handler takes one leaves the table alone, makes no
\* execute call and leaves the handler reading.
C8_KeepaliveNeverStored ==
    /\ [](\A c \in Conns : \A k \in 1..Len(hist[c]) :
            KeepaliveLine[hist[c][k].line] =>
                (hist[c][k].disp \notin RecordDisps /\ ~HasRow(c, k)))
    /\ [][\A c \in Conns :
            (/\ Len(hist'[c]) = Len(hist[c]) + 1
             /\ KeepaliveLine[hist'[c][Len(hist'[c])].line])
            => (hpc'[c] = "reading" /\ sensor_data' = sensor_data /\ execs' = execs)]_vars

(***************************************************************************)
(* C9.  Claim: every delimited line with at least 15 fields is decoded as  *)
(* a record.                                                               *)
(***************************************************************************)
\* The fields of a reading in the delimited encoding.
MinFields == Len(FieldNames)

\* C9 as claimed: a delimited line of at least 15 fields that a handler has
\* taken was decoded as a record.
C9_DelimitedLineAccepted ==
    \A c \in Conns : \A k \in 1..Len(hist[c]) :
        LET line == Trim(SampleLines[hist[c][k].line])
        IN  (IsDelimited(line) /\ FieldCount(line) >= MinFields)
                => hist[c][k].disp \in RecordDisps

(***************************************************************************)
(* C10.  Claim: every delimited line with fewer than 15 fields is          *)
(* malformed and gives no record.                                          *)
(***************************************************************************)
\* C10: a delimited line of fewer than 15 fields that a handler has taken
\* was rejected as malformed and has no row.
C10_ShortDelimitedLineRejected ==
    \A c \in Conns : \A k \in 1..Len(hist[c]) :
        LET line == Trim(SampleLines[hist[c][k].line])
        IN  (IsDelimited(line) /\ FieldCount(line) < MinFields)
                => (hist[c][k].disp = "malformed" /\ ~HasRow(c, k))

C10_Witness ==
    \E c \in Conns :
        /\ Len(hist[c]) = 1
        /\ hist[c][1] = Entry(9, "malformed")
        /\ IsDelimited(SampleLines[9])
        /\ FieldCount(SampleLines[9]) = 4
        /\ hpc[c] = "reading"
        /\ sensor_data = <<>>

(***************************************************************************)
(* C11.  Claim: once the flag is false the acceptor eventually leaves the  *)
(* accept loop; if every tracked handler eventually closes, the process    *)
(* eventually reaches "shutdown complete"; there is no drain timeout, so a *)
(* handler that never closes keeps the process from exiting forever.       *)
(***************************************************************************)
AllHandlersClosed == \A c \in Conns : ~Running(c)

\* C11(a): the flag being false leads to main having left the accept loop.
C11_LeavesAcceptLoop ==
    (~running) ~> (mpc \in {"drain", "join", "done", "panicked"})

\* C11(c): if some handler runs forever from some point on then main never
\* reaches "done".
C11_NoDrainTimeout ==
    \A c \in Conns : (<>[]Running(c)) => [](mpc # "done")

\* C11 as claimed: under a fairly scheduled main thread, (a) holds, (b) if
\* the flag becomes false and from some point on no handler is running then
\* main reaches "done", and (c) holds.
C11_ShutdownTerminates ==
    /\ C11_LeavesAcceptLoop
    /\ (<>(~running) /\ <>[]AllHandlersClosed) => <>(mpc = "done")
    /\ C11_NoDrainTimeout

(***************************************************************************)
(* C12.  Claim: the flag's transition changes no handler's state; a        *)
(* handler goes on decoding and appending after the flag is false, until   *)
(* its own end of stream or fatal error.                                   *)
(***************************************************************************)
\* C12 as claimed: the step that writes false to the flag leaves every handler variable
\* and the table as they were; with the flag false a handler that is reading
\* can still take a line and one that is inserting can still insert; and
\* with the flag false a handler stops running only by a step of its own from "start" (the timeout
\* could not be set) or from "reading" (end of stream, read error), a step
\* that does not touch the flag.
C12_FlagLeavesHandlersAlone ==
    /\ [][(running /\ ~running') => UNCHANGED handlerVars]_vars
    /\ [](~running =>
            \A c \in Conns :
                /\ (hpc[c] = "reading" /\ reads < MaxReads /\ frag[c].line = 0)
                       => \A i \in StreamLines : ENABLED ReadLine(c, i, MaxReads)
                /\ hpc[c] = "insert" => ENABLED Insert(c))
    /\ [][\A c \in Conns :
             (~running /\ Running(c) /\ ~Running(c)')
                 => /\ hpc[c] \in {"start", "reading"}
                    /\ hpc'[c] = "done"
                    /\ running' = running
                    /\ UNCHANGED mainVars]_vars

(***************************************************************************)
(* C13.  Claim: a read timeout (TimedOut or WouldBlock) is not a           *)
(* disconnect; the handler closes only on end of stream or on a read error *)
(* that is not a timeout.                                                  *)
(***************************************************************************)
\* A read result was delivered to some handler and no line came with it: the
\* read timed out.
TimedOutStep ==
    /\ reads' = reads + 1
    /\ hist' = hist

\* C13 as claimed: a step in which a read times out leaves every handler where it was,
\* so the one that timed out is still reading, and stores nothing; a handler
\* that has begun to read stops running only in a step from "reading" that
\* delivers no read result, which is the end of the stream or a read error
\* other than a timeout.
C13_TimeoutIsNotDisconnect ==
    /\ [][TimedOutStep => (hpc' = hpc /\ sensor_data' = sensor_data)]_vars
    /\ [][\A c \in Conns :
             (hpc[c] \in {"reading", "insert"} /\ hpc'[c] = "done")
                 => (hpc[c] = "reading" /\ reads' = reads /\ hist' = hist)]_vars

(***************************************************************************)
(* C14.  Claim: each row of the store corresponds to exactly one line that *)
(* is not blank, is not a keepalive and parsed as a complete record;       *)
(* blank, keepalive and malformed lines never reach the sink.              *)
(***************************************************************************)
\* The tests handle_client makes on each sample line: the trimmed line is
\* empty (line 163), it contains the keepalive marker (line 171), what
\* from_str makes of it (line 177), and whether the parsed timestamp contains
\* "keepalive" (line 180).
LineFacts ==
    [i \in AllLines |->
        LET line == Trim(SampleLines[i])
            parsed == FromStr(line)
        IN  [blank     |-> line = <<>>,
             marker    |-> HasKeepaliveMarker(line),
             parsed    |-> parsed,
             keepalive |-> parsed.ok /\ ContainsKeepalive(parsed.data["timestamp"])]]
    @@ <<>>

SkippedDisps == {"blank", "keepalive", "keepalive_ts", "malformed"}

\* The rows the table held when the server started.
PriorRows(table) == SelectSeq(table, LAMBDA r : r.conn = 0)

\* C14 as claimed: the rows the table held at the start are still there, in front of
\* every other; every row added since belongs to one line its handler took,
\* a line that is not blank, is not a keepalive and parses, and holds the
\* fifteen fields parsed from that line; no two rows belong to the same
\* line; and a line that is blank, a keepalive or does not parse, or that
\* the handler skipped, has no row.
C14_RowsAreDecodedRecords ==
    /\ PriorRows(sensor_data) \in PriorTables
    /\ SubSeq(sensor_data, 1, Len(PriorRows(sensor_data))) = PriorRows(sensor_data)
    /\ \A p \in (Len(PriorRows(sensor_data)) + 1)..Len(sensor_data) :
          LET r == sensor_data[p]
          IN  /\ r.conn \in Conns
              /\ r.idx \in 1..Len(hist[r.conn])
              /\ hist[r.conn][r.idx].disp = "inserted"
              /\ LET f == LineFacts[hist[r.conn][r.idx].line]
                 IN  /\ ~f.blank
                     /\ ~f.marker
                     /\ ~f.keepalive
                     /\ ~KeepaliveLine[hist[r.conn][r.idx].line]
                     /\ f.parsed.ok
                     /\ r.data = f.parsed.data
                     /\ DOMAIN r.data = FieldSet
              /\ \A q \in 1..Len(sensor_data) :
                    (sensor_data[q].conn = r.conn /\ sensor_data[q].idx = r.idx)
                        => q = p
    /\ \A c \in Conns : \A k \in 1..Len(hist[c]) :
          LET f == LineFacts[hist[c][k].line]
          IN  (\/ f.blank
               \/ f.marker
               \/ f.keepalive
               \/ KeepaliveLine[hist[c][k].line]
               \/ ~f.parsed.ok
               \/ hist[c][k].disp \in SkippedDisps) => ~HasRow(c, k)

(***************************************************************************)
(* C15.  Claim: an error on one connection changes only that handler's     *)
(* state (and at most the store); the other handlers, the flag and the     *)
(* acceptor are unchanged.                                                 *)
(***************************************************************************)
\* In this step connection c met an error: a line that does not parse, a
\* failed insert, or the end of its handler (the timeout could not be set,
\* a read error, the end of the stream).
ErrorStep(c) ==
    \/ Took(c, "malformed")
    \/ ExecuteFailed(c)
    \/ Running(c) /\ hpc'[c] = "done"

\* The rows of the connections other than c, in table order.
RowsOfOthers(table, c) == SelectSeq(table, LAMBDA r : r.conn # c)

\* C15: a step in which connection c meets an error leaves every other
\* handler's position, lines and execute count, the rows of every other
\* connection, the flag and all of main's variables as they were; so does a
\* step in which a read times out.
C15_ErrorsStayLocal ==
    /\ [][\A c \in Conns :
             ErrorStep(c) =>
                 /\ \A d \in Conns \ {c} :
                       /\ hpc'[d] = hpc[d]
                       /\ hist'[d] = hist[d]
                       /\ execs'[d] = execs[d]
                 /\ RowsOfOthers(sensor_data', c) = RowsOfOthers(sensor_data, c)
                 /\ running' = running
                 /\ UNCHANGED mainVars]_vars
    /\ [][TimedOutStep =>
             (hist' = hist /\ execs' = execs /\ running' = running
                /\ UNCHANGED mainVars)]_vars

\* One connection has sent a line that does not parse and then failed, the
\* other has a row stored and is still being read, and main is still
\* accepting.
C15_Witness ==
    /\ running
    /\ mpc \in {"guard", "accept"}
    /\ \E c, d \in Conns :
          /\ c # d
          /\ hpc[c] = "done"
          /\ hist[c] = <<Entry(9, "malformed")>>
          /\ hpc[d] = "reading"
          /\ HasRow(d, 1)

(***************************************************************************)
(* C16.  Claim: no failure on the accept side (would-block, another accept *)
(* error, a store that cannot be opened) is fatal; the only way out of the *)
(* accept loop is to observe the flag false.                               *)
(***************************************************************************)
\* The positions of main inside the accept loop.
InAcceptLoop == {"guard", "accept", "accepterr", "open", "spawn", "retain"}

\* C16 as claimed: main leaves the accept loop only from the loop guard with the flag
\* false; a failed accept and a failed open of the store both take main back
\* to the loop guard with the tracked handlers as they were; and inside the
\* loop main always has a next step.
C16_AcceptFailuresNotFatal ==
    /\ [][(mpc \in InAcceptLoop /\ mpc' \notin InAcceptLoop)
             => (mpc = "guard" /\ ~running /\ mpc' = "drain")]_vars
    /\ [][(mpc \in {"accept", "accepterr", "open"} /\ mpc' # mpc
              /\ mpc' \notin {"accepterr", "open", "spawn"})
             => (mpc' = "guard" /\ client_threads' = client_threads
                   /\ running' = running)]_vars
    /\ [](mpc \in InAcceptLoop => ENABLED MainStep(MaxConns))

(***************************************************************************)
(* C17.  Claim: the flag is true at startup, changes from true to false at *)
(* most once and is never set back to true.                                *)
(***************************************************************************)
\* C17: the flag starts true; every step that changes it takes it from true
\* to false; and once false it is false in the next state, so there is at
\* most one change, however often the signal arrives.
C17_FlagFallsOnce ==
    /\ running = TRUE
    /\ [][(running' # running) => (running /\ ~running')]_vars
    /\ [][(~running) => ~running']_vars

\* The flag is false and main has left the loop and waits for a handler: the
\* signal can still arrive.
C17_Witness ==
    /\ ~running
    /\ mpc = "join"
    /\ client_threads # <<>>
    /\ ENABLED CtrlC

(***************************************************************************)
(* C18.  Claim: every handler that was spawned and has not finished is in  *)
(* client_threads; pruning removes only finished handlers.                 *)
(***************************************************************************)
\* The connections whose handles are in the list.
Tracked(list) == { list[p] : p \in 1..Len(list) }

\* C18: a handler that is running is tracked, once only; and a handle leaves
\* the list only when its handler has finished.
C18_UnfinishedHandlersTracked ==
    /\ [](\A c \in Conns : Running(c) => c \in Tracked(client_threads))
    /\ [](Cardinality(Tracked(client_threads)) = Len(client_threads))
    /\ [][\A c \in Tracked(client_threads) \ Tracked(client_threads') :
             IsFinished(c)]_vars

\* The first handler has finished and was pruned; the second is running and
\* is the only one tracked.
C18_Witness ==
    /\ mpc = "guard"
    /\ hpc[1] = "done"
    /\ Running(2)
    /\ client_threads = <<2>>

(***************************************************************************)
(* C19.  Claim: a read timeout loses no input: the part of a line that has *)
(* arrived is retained, and the line, once complete, is decoded exactly    *)
(* once.                                                                   *)
(***************************************************************************)
\* The lines clients send, whole or in pieces, and the unfinished lines they
\* leave when they close.
SentLines ==
    StreamLines \cup { f[1] : f \in Fragments }
                \cup { LineId(SubSeq(SampleLines[f[1]], 1, f[2])) : f \in Fragments }

\* C19 as claimed: what has been read of a line that is still arriving is
\* held by the handler, and every line a handler has decoded is a line its
\* client sent.
C19_TimeoutLosesNoInput ==
    /\ \A c \in Conns : frag[c].held = frag[c].sent
    /\ \A c \in Conns : \A k \in 1..Len(hist[c]) : hist[c][k].line \in SentLines

====
